---------------------------- MODULE Spec2Model ----------------------------
(***************************************************************************)
(* Model of the SUMP logic analyzer (src/src/logic_analyzer.h) and of its  *)
(* Raspberry Pico PIO/DMA capture backend                                  *)
(* (src/src/capture_raspberry_pico.h).                                     *)
(*                                                                         *)
(* SpecRB   drives one RingBuffer<T> through its public methods.           *)
(* Spec     a host sends SUMP commands to a LogicAnalyzer<T> once begun;   *)
(*          processCommand() dispatches them, ARM runs capture().          *)
(* SpecApi  as Spec, and the sketch also calls capture() itself, with or   *)
(*          without the dump.                                              *)
(* SpecE2E  the analyzer reads one fixed script of commands.               *)
(* SpecPico one PicoCapturePIO runs captures while cancel() is called from *)
(*          outside.                                                       *)
(* SpecDiv  as Spec, the host choosing among SET_DIVIDER arguments.        *)
(* SpecOpcodes  as Spec, the host also sending every opcode that has no    *)
(*          case in the dispatch.                                          *)
(* SpecStop as Spec, with setStatus(STOPPED) and reset() called from       *)
(*          outside during a capture, and fairness of the capture's steps. *)
(* SpecBatch  batch captures without a trigger for every pair of counts,   *)
(*          with fairness of the capture's steps.                          *)
(* SpecWire as Spec, the host writing two commands back to back.           *)
(* SpecReset  RESET commands received around the wrap of millis().         *)
(***************************************************************************)
EXTENDS Integers, Sequences, FiniteSets, TLC

(***************************************************************************)
(* Bounds of the model.                                                    *)
(***************************************************************************)
\* largest sample value the pin reader (or a caller of write) delivers
MaxSample == 1
\* largest capacity a RingBuffer is constructed with
MaxSize == 2
\* largest argument passed to clear(count)
MaxClear == 3
\* maxCaptureSize passed to begin()
MaxCapture == 2
\* number of commands the host sends (and of direct calls of capture())
MaxCommands == 3
\* millis() is followed up to this value
MaxNow == 1000
\* bytes a continuous capture is followed for
MaxStream == 2

Sample == 0..MaxSample

VARIABLES
    buffer,     \* the RingBuffer<T>: its fields, named as in the source
    op,         \* observer: the last RingBuffer call, its argument and result
    queue,      \* observer: the values the contract says the buffer holds
    scen,       \* observer: the shape of the calls made since the buffer was empty
    la,         \* the LogicAnalyzer<T>: its fields, named as in the source
    pc,         \* where the analyzer's thread is: in loop(), or inside capture()
    cap,        \* capture(): its arguments, and observers of the running capture
    rx,         \* transport: bytes sent by the host and not yet read
    tx,         \* transport: bytes written since the current command was read
    events,     \* events raised since the current command was read
    done,       \* observer: the command being processed, as it was dispatched
    now,        \* millis()
    host,       \* the commands the host may send in this run
    pins,       \* the levels the pin reader may return in this run
    sent,       \* number of commands (and direct calls) issued so far
    pico        \* the PicoCapturePIO: its fields, its thread and its response

rbvars == <<buffer, op, queue, scen>>
lavars == <<la, pc, cap, rx, tx, events, done, now, host, pins, sent, pico>>
vars == <<buffer, op, queue, scen, la, pc, cap, rx, tx, events, done, now, host,
          pins, sent, pico>>

(***************************************************************************)
(* RingBuffer<T>                                                           *)
(*                                                                         *)
(* data is the array `new T[size_count]`: its slots are 0..size_count-1    *)
(* and a slot holds Unwritten until the first store (new T[n] does not     *)
(* initialise).  The source lets write_pos and read_pos reach size_count:  *)
(* data[size_count] lies outside the array.  A store there is not kept in  *)
(* data, and a load from there (or from an Unwritten slot) yields any      *)
(* value of T.                                                             *)
(***************************************************************************)
Unwritten == 0 - 1

RingBuffer(size) ==
    [ size_count      |-> size,
      available_count |-> 0,
      write_pos       |-> 0,
      read_pos        |-> 0,
      ignore_count    |-> 0,
      data            |-> [i \in 0..(size - 1) |-> Unwritten] ]

RingBuffer_available(b) == b.available_count

RingBuffer_size(b) == b.size_count

\* write as it would be without the test for a full buffer
RingBuffer_write_uncapped(b, value) ==
    IF b.ignore_count > 0
    THEN [b EXCEPT !.ignore_count = @ - 1]
    ELSE [b EXCEPT !.write_pos = IF @ + 1 > b.size_count THEN 0 ELSE @ + 1,
                   !.available_count = @ + 1]

\* void write(T value)
RingBuffer_write(b, value) ==
    IF b.ignore_count > 0
    THEN [b EXCEPT !.ignore_count = @ - 1]
    ELSE LET stored == IF b.write_pos < b.size_count
                       THEN [b.data EXCEPT ![b.write_pos] = value]
                       ELSE b.data
             next   == b.write_pos + 1
             wp     == IF next > b.size_count THEN 0 ELSE next
         IN  IF b.available_count < b.size_count
             THEN [b EXCEPT !.data = stored, !.write_pos = wp,
                            !.available_count = @ + 1]
             ELSE [b EXCEPT !.data = stored, !.write_pos = wp,
                            !.read_pos = wp + 1]

\* the index read() loads from, after its wrap-around test
RingBuffer_read_index(b) ==
    IF b.read_pos > b.size_count THEN 0 ELSE b.read_pos

\* the slots a call of write(value) stores to: data[write_pos++] = value
RingBuffer_write_access(b) ==
    IF b.ignore_count > 0 THEN {} ELSE {b.write_pos}

\* the slots a call of read() loads from: result = data[read_pos++]
RingBuffer_read_access(b) ==
    IF b.available_count > 0 THEN {RingBuffer_read_index(b)} ELSE {}

\* T read(): the values the call can return
RingBuffer_read_result(b) ==
    IF b.available_count > 0
    THEN LET i == RingBuffer_read_index(b)
         IN  IF i < b.size_count /\ b.data[i] # Unwritten
             THEN {b.data[i]}
             ELSE Sample
    ELSE {0}

\* T read(): the buffer after the call
RingBuffer_read(b) ==
    IF b.available_count > 0
    THEN [b EXCEPT !.read_pos = RingBuffer_read_index(b) + 1,
                   !.available_count = @ - 1]
    ELSE b

\* void clear()
RingBuffer_clear(b) ==
    [b EXCEPT !.ignore_count = 0, !.available_count = 0,
              !.write_pos = 0, !.read_pos = 0]

\* the loop of clear(count): for (j=0; j<count && available()>0; j++) read();
RECURSIVE RingBuffer_clear_loop(_, _, _)
RingBuffer_clear_loop(b, j, count) ==
    IF j < count /\ RingBuffer_available(b) > 0
    THEN RingBuffer_clear_loop(RingBuffer_read(b), j + 1, count)
    ELSE b

\* void clear(size_t count)
RingBuffer_clear_n(b, count) ==
    LET b0 == [b EXCEPT !.ignore_count = 0]
        b1 == IF count > b0.available_count
              THEN [b0 EXCEPT !.ignore_count = count - b0.available_count]
              ELSE b0
    IN  RingBuffer_clear_loop(b1, 0, count)


(***************************************************************************)
(* The contract of the buffer (spec 4.1): a FIFO of at most `capacity`     *)
(* that drops its oldest value when full, and a count of future writes to  *)
(* discard.  The observers below follow it beside the real buffer.         *)
(***************************************************************************)
Fifo_write(q, capacity, v) ==
    IF q.pending > 0 THEN [q EXCEPT !.pending = @ - 1]
    ELSE IF capacity = 0 THEN q
    ELSE IF Len(q.items) = capacity THEN [q EXCEPT !.items = Append(Tail(@), v)]
    ELSE [q EXCEPT !.items = Append(@, v)]

Fifo_front(q) == IF q.items = <<>> THEN 0 ELSE Head(q.items)

Fifo_read(q) == IF q.items = <<>> THEN q ELSE [q EXCEPT !.items = Tail(@)]

Fifo_clear(q) == [items |-> <<>>, pending |-> 0]

Fifo_clear_n(q, n) ==
    IF n > Len(q.items)
    THEN [items |-> <<>>, pending |-> n - Len(q.items)]
    ELSE [items |-> SubSeq(q.items, n + 1, Len(q.items)), pending |-> 0]

IsEmpty(b) == b.available_count = 0 /\ b.ignore_count = 0

Min(a, b) == IF a < b THEN a ELSE b

(***************************************************************************)
(* scen: what the calls since the last empty buffer look like.             *)
(*   "fill"     k writes and nothing else since the buffer was empty       *)
(*   "drain"    more than size_count such writes, then j reads             *)
(*   "cleared"  a clear(n) with n <= available(), then reads only          *)
(*   "deficit"  a clear(n) with n > available() (d = n - available()),     *)
(*              then k writes and nothing else                             *)
(*   "refill"   a deficit, d + 1 writes, then one read                     *)
(* k is counted up to size_count + 1 (fill) or d + 1 (deficit); v is the   *)
(* value of the last write of a deficit.                                   *)
(***************************************************************************)
NoScen == [kind |-> "other", k |-> 0, j |-> 0, d |-> 0, v |-> 0]

Scen_write(s, b, value) ==
    IF s.kind = "deficit" /\ s.k <= s.d THEN [s EXCEPT !.k = @ + 1, !.v = value]
    ELSE IF IsEmpty(b) THEN [kind |-> "fill", k |-> 1, j |-> 0, d |-> 0, v |-> 0]
    ELSE IF s.kind = "fill" THEN [s EXCEPT !.k = Min(@ + 1, b.size_count + 1)]
    ELSE NoScen

Scen_read(s, b) ==
    IF s.kind = "fill" /\ s.k > b.size_count /\ b.size_count >= 1
        THEN [s EXCEPT !.kind = "drain", !.j = 1]
    ELSE IF s.kind = "drain" /\ b.available_count > 0 THEN [s EXCEPT !.j = @ + 1]
    ELSE IF s.kind = "cleared" THEN s
    ELSE IF s.kind = "deficit" /\ s.k = s.d + 1 THEN [s EXCEPT !.kind = "refill"]
    ELSE NoScen

Scen_clear_n(s, b, n) ==
    IF n <= b.available_count
    THEN [kind |-> "cleared", k |-> 0, j |-> 0, d |-> 0, v |-> 0]
    ELSE [kind |-> "deficit", k |-> 0, j |-> 0, d |-> n - b.available_count,
          v |-> 0]

(***************************************************************************)
(* A caller of the buffer's public methods (LogicAnalyzer::buffer() hands  *)
(* the buffer out).  op records the call: its argument, available() before *)
(* it, what it returned and what the contract says it returns.             *)
(***************************************************************************)
Call(name, arg, result, expect) ==
    [name |-> name, arg |-> arg, before |-> buffer.available_count,
     result |-> result, expect |-> expect]

\* no PicoCapturePIO has been constructed
NoPico == [pc |-> "none"]

\* the analyzer's part of the state while only a buffer is exercised
NoAnalyzer ==
    /\ la = [status_value |-> "STOPPED"]
    /\ pc = "none"
    /\ cap = <<>>
    /\ rx = <<>>
    /\ tx = <<>>
    /\ events = <<>>
    /\ done = <<>>
    /\ now = 0
    /\ host = {}
    /\ pins = {}
    /\ sent = 0
    /\ pico = NoPico

InitRB ==
    /\ NoAnalyzer
    /\ \E size \in 0..MaxSize : buffer = RingBuffer(size)
    /\ op = [name |-> "new", arg |-> 0, before |-> 0, result |-> 0, expect |-> 0]
    /\ queue = [items |-> <<>>, pending |-> 0]
    /\ scen = [kind |-> "fill", k |-> 0, j |-> 0, d |-> 0, v |-> 0]

Call_write ==
    \E v \in Sample :
        /\ buffer' = RingBuffer_write(buffer, v)
        /\ op' = Call("write", v, 0, 0)
        /\ queue' = Fifo_write(queue, buffer.size_count, v)
        /\ scen' = Scen_write(scen, buffer, v)
        /\ UNCHANGED lavars

Call_read ==
    \E r \in RingBuffer_read_result(buffer) :
        /\ buffer' = RingBuffer_read(buffer)
        /\ op' = Call("read", 0, r, Fifo_front(queue))
        /\ queue' = Fifo_read(queue)
        /\ scen' = Scen_read(scen, buffer)
        /\ UNCHANGED lavars

Call_clear ==
    /\ buffer' = RingBuffer_clear(buffer)
    /\ op' = Call("clear", 0, 0, 0)
    /\ queue' = Fifo_clear(queue)
    /\ scen' = NoScen
    /\ UNCHANGED lavars

Call_clear_n ==
    \E n \in 0..MaxClear :
        /\ buffer' = RingBuffer_clear_n(buffer, n)
        /\ op' = Call("clear_n", n, 0, 0)
        /\ queue' = Fifo_clear_n(queue, n)
        /\ scen' = Scen_clear_n(scen, buffer, n)
        /\ UNCHANGED lavars

NextRB == Call_write \/ Call_read \/ Call_clear \/ Call_clear_n

SpecRB == InitRB /\ [][NextRB]_vars

(***************************************************************************)
(* C1: for a RingBuffer of capacity C, after any sequence of write, read,  *)
(* clear() and clear(n) calls, available() <= C.                           *)
(***************************************************************************)
C1_AvailableWithinCapacity ==
    RingBuffer_available(buffer) <= RingBuffer_size(buffer)

\* a write arrived at a full buffer of capacity >= 1
C1_Witness ==
    /\ op.name = "write"
    /\ buffer.size_count >= 1
    /\ op.before = buffer.size_count
    /\ buffer.available_count = buffer.size_count

(***************************************************************************)
(* C2: from an empty RingBuffer of capacity C >= 1, after k > C            *)
(* consecutive writes available() = C, and C consecutive reads return the  *)
(* last C written values in the order they were written.                   *)
(***************************************************************************)
C2_DrainYieldsNewest ==
    buffer.size_count >= 1 =>
        /\ (scen.kind = "fill" /\ scen.k > buffer.size_count)
               => buffer.available_count = buffer.size_count
        /\ scen.kind = "drain"
               => /\ buffer.available_count = buffer.size_count - scen.j
                  /\ op.result = op.expect

(***************************************************************************)
(* C3: clear(n) with n <= available() lowers available() by exactly n,     *)
(* removes the n oldest entries (the reads that follow return the          *)
(* remaining entries in their original order) and leaves no write to be    *)
(* dropped.                                                                *)
(***************************************************************************)
C3_ClearWithinAvailable ==
    scen.kind = "cleared" =>
        /\ buffer.ignore_count = 0
        /\ op.name = "clear_n" => buffer.available_count = op.before - op.arg
        /\ op.name = "read" => op.result = op.expect

(***************************************************************************)
(* C4: clear(n) with n > available() empties the buffer, each of the next  *)
(* n - available_before writes is discarded and leaves available() = 0,    *)
(* and the write after those is stored: available() becomes 1 and read()   *)
(* returns that value.                                                     *)
(***************************************************************************)
C4_DeficitThenResume ==
    buffer.size_count >= 1 =>
        /\ (scen.kind = "deficit" /\ scen.k <= scen.d)
               => buffer.available_count = 0
        /\ (scen.kind = "deficit" /\ scen.k = scen.d + 1)
               => buffer.available_count = 1
        /\ scen.kind = "refill"
               => op.result = scen.v /\ buffer.available_count = 0


(***************************************************************************)
(* LogicAnalyzer<T>, with T = uint8_t on a little-endian 32-bit target.    *)
(***************************************************************************)
SUMP_RESET == 0
SUMP_ARM == 1
SUMP_ID == 2
SUMP_XON == 17
SUMP_XOFF == 19
SUMP_TRIGGER_MASK == 192
SUMP_TRIGGER_VALUES == 193
SUMP_TRIGGER_CONFIG == 194
SUMP_SET_DIVIDER == 128
SUMP_SET_READ_DELAY_COUNT == 129
SUMP_SET_FLAGS == 130
SUMP_GET_METADATA == 4

\* sump_reset_igorne_timeout = millis() + 500
ResetIgnoreMs == 500

\* a value that was never assigned (frequecy_value, delay_time_us)
Indeterminate == 0 - 1

\* byte i of x, byte 0 the least significant
ByteOf(x, i) == (x \div (256 ^ i)) % 256

\* a 32-bit word as it lies in memory on the little-endian target, and back
WordBytes(x) == <<ByteOf(x, 0), ByteOf(x, 1), ByteOf(x, 2), ByteOf(x, 3)>>

\* a uint32_t of 2^31 or more is held as the integer of the same 32 bits,
\* its value less 2^32
WordValue(w) ==
    w[1] + 256 * w[2] + 65536 * w[3]
         + 16777216 * (IF w[4] >= 128 THEN w[4] - 256 ELSE w[4])

\* htonl / ntohl on a little-endian host reverse the four bytes of the word
htonl(w) == <<w[4], w[3], w[2], w[1]>>

ntohl(w) == htonl(w)

\* ntohs on a little-endian host
ntohs(x) == ByteOf(x, 0) * 256 + ByteOf(x, 1)

RECURSIVE BitAnd(_, _)
BitAnd(a, b) ==
    IF a = 0 \/ b = 0 THEN 0
    ELSE (a % 2) * (b % 2) + 2 * BitAnd(a \div 2, b \div 2)

RECURSIVE BitXor(_, _)
BitXor(a, b) ==
    IF a = 0 THEN b
    ELSE IF b = 0 THEN a
    ELSE ((a + b) % 2) + 2 * BitXor(a \div 2, b \div 2)

\* variant: uint16Values[idx] taken as it lies in memory, without ntohs
get16_host_order(c, idx) == c[2 * idx + 1] + 256 * c[2 * idx + 2]

\* Sump4ByteComandArg: c is uint8Values, c[1] the first byte received
get16(c, idx) == ntohs(c[2 * idx + 1] + 256 * c[2 * idx + 2])

get32(c) == WordValue(ntohl(c))

\* commandExtPinBitArray() for sizeof(T) = 1
commandExtPinBitArray(c) == c[1]

\* write(T bits): stream_ptr->write(htonl(bits)) resolves to write(uint8_t),
\* which sends the low byte of the swapped word
write_bits(bits) == <<htonl(WordBytes(bits))[1]>>

\* write(uint8_t cmd, uint32_t number): the command byte, then the bytes of
\* htonl(number) as they lie in memory
write_number(cmd, number) == <<cmd>> \o htonl(WordBytes(number))

\* "1ALS"
device_id == <<49, 65, 76, 83>>

\* "ARDUINO"
description == <<65, 82, 68, 85, 73, 78, 79>>

\* "\x041\x002" and its terminator: the hex escapes take all three digits
protocol_version == <<65, 2, 0>>

\* begin() is called with numberOfPins = 8 by default
pin_numbers == 8

\* sendMetadata(); frequecy_value f may be Indeterminate
sendMetadata(l, f) ==
    <<1>> \o description \o <<0>>
        \o write_number(32, pin_numbers)
        \o write_number(33, l.max_capture_size)
        \o write_number(35, f)
        \o protocol_version

\* variant: the divider itself divides
setupDelay_no_increment(divider) ==
    IF divider = 0 THEN Indeterminate
    ELSE IF divider < 0 \/ divider > 100000000 THEN 0
    ELSE 100000000 \div divider

\* setupDelay(divider): 100000000l / (divider + 1) in unsigned long, 32 bits
\* wide: divider + 1 wraps to 0 for 2^32 - 1 (held as -1) and the division
\* by zero is undefined; a divider of 100000000 or more (the negative ones
\* are 2^31 or more) gives 0
setupDelay(divider) ==
    IF divider = 0 - 1 THEN Indeterminate
    ELSE IF divider < 0 \/ divider >= 100000000 THEN 0
    ELSE 100000000 \div (divider + 1)

\* setCaptureFrequency(value): delay_time_us = (1000000.0 / value) - 1,
\* converted from double to uint64_t
delay_time_us_of(value) ==
    IF value = Indeterminate \/ value = 0 THEN Indeterminate
    ELSE IF value > 1000000 THEN 0
    ELSE (1000000 \div value) - 1

\* variant: the wait tests the masked pins against zero, not trigger_values
trigger_miss_values_ignored(l, sample) ==
    BitAnd(sample, l.trigger_mask) # 0

\* the test of the trigger wait: (trigger_values ^ sample) & trigger_mask
trigger_miss(l, sample) ==
    BitAnd(BitXor(l.trigger_values, sample), l.trigger_mask) # 0

\* variant: the count is taken as received
clamp_none(count, max_capture_size) == count

\* min((uint32_t) get16, max_capture_size)
clamp(count, max_capture_size) == Min(count, max_capture_size)

(***************************************************************************)
(* The host and its commands, as the bytes on the wire.                    *)
(***************************************************************************)
Short(opcode) == <<opcode>>

Long(opcode, b1, b2, b3, b4) == <<opcode, b1, b2, b3, b4>>

SetReadDelayCount(r, d) ==
    Long(SUMP_SET_READ_DELAY_COUNT, r \div 256, r % 256, d \div 256, d % 256)

SetDivider(d) ==
    Long(SUMP_SET_DIVIDER, ByteOf(d, 3), ByteOf(d, 2), ByteOf(d, 1), ByteOf(d, 0))

\* the counts the host asks for: none, one, and one more than the capture size
Counts == {0, 1, MaxCapture + 1}

HostCommands ==
    { Short(SUMP_RESET), Short(SUMP_ARM), Short(SUMP_ID), Short(SUMP_GET_METADATA),
      Short(SUMP_XON), Long(SUMP_TRIGGER_CONFIG, 0, 0, 0, 0),
      SetDivider(99), SetDivider(199),
      Long(SUMP_SET_FLAGS, 0, 64, 0, 0), Long(SUMP_SET_FLAGS, 0, 0, 0, 0) }
    \cup { Long(SUMP_TRIGGER_MASK, m, 0, 0, 0) : m \in Sample }
    \cup { Long(SUMP_TRIGGER_VALUES, v, 0, 0, 0) : v \in Sample }
    \cup { SetReadDelayCount(r, d) : r \in Counts, d \in Counts }

\* maxCaptureFreqThreshold passed to begin()
Thresholds == {1000000, 2000000}

\* what an uninitialised uint64_t may hold: here a value below and a value
\* above every threshold
IndeterminateValues == {0, 4000000}

Resolve(x) == IF x = Indeterminate THEN IndeterminateValues ELSE {x}

\* begin(stream, impl_ptr, maxCaptureFreq, threshold, size): the analyzer's
\* fields after it; frequecy_value and delay_time_us are not assigned
begin(threshold, size) ==
    [ is_continuous_capture     |-> FALSE,
      max_capture_size          |-> size,
      read_count                |-> size,
      delay_count               |-> size,
      frequecy_value            |-> Indeterminate,
      max_frequecy_threshold    |-> threshold,
      delay_time_us             |-> Indeterminate,
      sump_reset_igorne_timeout |-> 0,
      status_value              |-> "STOPPED",
      trigger_mask              |-> 0,
      trigger_values            |-> 0 ]

\* capture(is_max_speed, is_dump): the call's arguments, and what the capture
\* did so far: pin reads of the trigger wait (counted up to 2), the last of
\* them, samples stored and samples discarded by the sampling loop, and the
\* stored samples in the order they were taken
capture_call(is_max_speed, is_dump) ==
    [ is_max_speed |-> is_max_speed, is_dump |-> is_dump,
      reads |-> 0, last |-> 0, stored |-> 0, dropped |-> 0, samples |-> <<>> ]

NoCapture == capture_call(FALSE, FALSE)

NoCommand == [cmd |-> Indeterminate, arg |-> <<>>, accepted |-> FALSE]

\* setStatus(status): the field; the STATUS event is raised by the caller below
\* variant: setStatus(ARMED) leaves the status as it is
setStatus_not_armed(l, status) ==
    IF status = "ARMED" THEN l ELSE [l EXCEPT !.status_value = status]

setStatus(l, status) == [l EXCEPT !.status_value = status]

\* the threshold of the sketch: the frequency set by SET_DIVIDER(99) reaches
\* it, the one set by SET_DIVIDER(199) does not
SketchThresholds == {1000000}

Init ==
    /\ \E t \in SketchThresholds : la = begin(t, MaxCapture)
    /\ buffer = RingBuffer(MaxCapture)
    /\ op = [name |-> "new", arg |-> 0, before |-> 0, result |-> 0, expect |-> 0]
    /\ queue = [items |-> <<>>, pending |-> 0]
    /\ scen = NoScen
    /\ pc = "idle"
    /\ cap = NoCapture
    /\ rx = <<>>
    /\ tx = <<>>
    /\ events = <<>>
    /\ done = NoCommand
    /\ now = 0
    /\ host = HostCommands
    /\ pins = Sample
    /\ sent = 0
    /\ pico = NoPico

\* the host puts one command on the wire
HostSend ==
    /\ sent < MaxCommands
    /\ rx = <<>>
    /\ \E c \in host : rx' = c
    /\ sent' = sent + 1
    /\ UNCHANGED <<rbvars, la, pc, cap, tx, events, done, now, host, pins, pico>>

\* millis() advances.  Only the RESET case reads it, so time is let pass
\* while a RESET waits to be read.
Tick ==
    /\ pc = "idle"
    /\ rx # <<>> /\ Head(rx) = SUMP_RESET
    /\ now + (ResetIgnoreMs \div 2) <= MaxNow
    /\ now' = now + (ResetIgnoreMs \div 2)
    /\ UNCHANGED <<rbvars, la, pc, cap, rx, tx, events, done, host, pins, pico, sent>>

(***************************************************************************)
(* processCommand(): command() reads the opcode, processCommand(int)       *)
(* dispatches it.  A case that calls commandExt() takes the next four      *)
(* bytes; the host sends a command whole, so they have arrived.            *)
(***************************************************************************)
Dispatched(l, out, evs, accepted, arg, rest) ==
    /\ la' = l
    /\ tx' = out
    /\ events' = evs
    /\ done' = [cmd |-> Head(rx), arg |-> arg, accepted |-> accepted]
    /\ rx' = rest
    /\ pc' = "done"
    /\ UNCHANGED <<rbvars, cap, now, host, pins, pico, sent>>

\* a > b for two 32-bit unsigned values, each held as value - 2^32 when it is
\* 2^31 or more
UGreater(a, b) == IF (a < 0) = (b < 0) THEN a > b ELSE a < 0

\* if (millis() > sump_reset_igorne_timeout) sump_reset_igorne_timeout =
\* millis() + 500; the sum is an unsigned long and wraps at 2^32
case_SUMP_RESET ==
    LET accepted == UGreater(now, la.sump_reset_igorne_timeout)
        l == IF accepted
             THEN [la EXCEPT !.sump_reset_igorne_timeout = now + ResetIgnoreMs]
             ELSE la
    IN  Dispatched(l, <<>>, <<>>, accepted, <<>>, Tail(rx))

case_SUMP_ID == Dispatched(la, device_id, <<>>, TRUE, <<>>, Tail(rx))

case_SUMP_GET_METADATA ==
    \E f \in Resolve(la.frequecy_value) :
        Dispatched(la, sendMetadata(la, f), <<>>, TRUE, <<>>, Tail(rx))

case_SUMP_ARM ==
    /\ \E f \in Resolve(la.frequecy_value) :
          cap' = capture_call(f >= la.max_frequecy_threshold, TRUE)
    /\ la' = setStatus(la, "ARMED")
    /\ events' = <<"STATUS">>
    /\ tx' = <<>>
    /\ done' = [cmd |-> SUMP_ARM, arg |-> <<>>, accepted |-> TRUE]
    /\ rx' = Tail(rx)
    /\ pc' = "capture"
    /\ UNCHANGED <<rbvars, now, host, pins, pico, sent>>

\* commandExt(): the four bytes read, and the input left
commandExt(input) == SubSeq(input, 1, 4)

afterExt(input) == SubSeq(input, 5, Len(input))

case_SUMP_TRIGGER_MASK ==
    LET cmd4 == commandExt(Tail(rx))
    IN  Dispatched([la EXCEPT !.trigger_mask = commandExtPinBitArray(cmd4)],
                   <<>>, <<"TRIGGER_MASK">>, TRUE, cmd4, afterExt(Tail(rx)))

case_SUMP_TRIGGER_VALUES ==
    LET cmd4 == commandExt(Tail(rx))
    IN  Dispatched([la EXCEPT !.trigger_values = commandExtPinBitArray(cmd4)],
                   <<>>, <<"TRIGGER_VALUES">>, TRUE, cmd4, afterExt(Tail(rx)))

\* variant: the case breaks without reading the argument
case_SUMP_TRIGGER_CONFIG_no_read ==
    Dispatched(la, <<>>, <<>>, TRUE, <<>>, Tail(rx))

\* "read the rest of the command bytes but ignore them"
case_SUMP_TRIGGER_CONFIG ==
    LET cmd4 == commandExt(Tail(rx))
    IN  Dispatched(la, <<>>, <<>>, TRUE, cmd4, afterExt(Tail(rx)))

case_SUMP_SET_DIVIDER ==
    LET cmd4 == commandExt(Tail(rx))
        value == setupDelay(get32(cmd4))
    IN  Dispatched([la EXCEPT !.frequecy_value = value,
                              !.delay_time_us = delay_time_us_of(value)],
                   <<>>, <<"CAPTURE_FREQUNCY">>, TRUE, cmd4, afterExt(Tail(rx)))

case_SUMP_SET_READ_DELAY_COUNT ==
    LET cmd4 == commandExt(Tail(rx))
    IN  Dispatched([la EXCEPT
                       !.read_count = clamp(get16(cmd4, 0), la.max_capture_size),
                       !.delay_count = clamp(get16(cmd4, 1), la.max_capture_size)],
                   <<>>, <<"READ_DLEAY_COUNT">>, TRUE, cmd4, afterExt(Tail(rx)))

case_SUMP_SET_FLAGS ==
    LET cmd4 == commandExt(Tail(rx))
    IN  Dispatched([la EXCEPT
                       !.is_continuous_capture = (BitAnd(cmd4[2], 64) # 0)],
                   <<>>, <<"FLAGS">>, TRUE, cmd4, afterExt(Tail(rx)))

\* variant: the default case reads four argument bytes
case_default_reads_argument ==
    Dispatched(la, <<>>, <<>>, FALSE, <<>>, afterExt(Tail(rx)))

\* default: printLog only
case_default == Dispatched(la, <<>>, <<>>, FALSE, <<>>, Tail(rx))

\* the switch of processCommand(int cmd)
Dispatch ==
    LET cmd == Head(rx)
    IN  CASE cmd = SUMP_RESET -> case_SUMP_RESET
          [] cmd = SUMP_ID -> case_SUMP_ID
          [] cmd = SUMP_GET_METADATA -> case_SUMP_GET_METADATA
          [] cmd = SUMP_ARM -> case_SUMP_ARM
          [] cmd = SUMP_TRIGGER_MASK /\ Len(rx) >= 5 -> case_SUMP_TRIGGER_MASK
          [] cmd = SUMP_TRIGGER_VALUES /\ Len(rx) >= 5 -> case_SUMP_TRIGGER_VALUES
          [] cmd = SUMP_TRIGGER_CONFIG /\ Len(rx) >= 5 -> case_SUMP_TRIGGER_CONFIG
          [] cmd = SUMP_SET_DIVIDER /\ Len(rx) >= 5 -> case_SUMP_SET_DIVIDER
          [] cmd = SUMP_SET_READ_DELAY_COUNT /\ Len(rx) >= 5
                 -> case_SUMP_SET_READ_DELAY_COUNT
          [] cmd = SUMP_SET_FLAGS /\ Len(rx) >= 5 -> case_SUMP_SET_FLAGS
          [] cmd \notin { SUMP_RESET, SUMP_ID, SUMP_GET_METADATA, SUMP_ARM,
                          SUMP_TRIGGER_MASK, SUMP_TRIGGER_VALUES,
                          SUMP_TRIGGER_CONFIG, SUMP_SET_DIVIDER,
                          SUMP_SET_READ_DELAY_COUNT, SUMP_SET_FLAGS }
                 -> case_default
          [] OTHER -> FALSE

\* variant: the transport is polled from inside the sampling loop as well
ProcessCommand_while_sampling ==
    /\ pc \in {"idle", "loop"}
    /\ rx # <<>>
    /\ Dispatch

\* processCommand(): if (hasCommand()) processCommand(command()), called from
\* the sketch's loop() only
ProcessCommand ==
    /\ pc = "idle"
    /\ rx # <<>>
    /\ Dispatch

\* processCommand() returns to loop(): the observers of the call are reset
Return ==
    /\ pc = "done"
    /\ pc' = "idle"
    /\ tx' = <<>>
    /\ events' = <<>>
    /\ done' = NoCommand
    /\ cap' = NoCapture
    /\ UNCHANGED <<rbvars, la, rx, now, host, pins, pico, sent>>

(***************************************************************************)
(* capture(is_max_speed, is_dump), one step per loop iteration.            *)
(*   "capture"  at the trigger wait                                        *)
(*   "window"   status is TRIGGERED, the buffer not yet trimmed            *)
(*   "loop"     at the sampling loop (captureAll, captureAllContinous, ..) *)
(*   "dump"     in dumpData()                                              *)
(***************************************************************************)
\* variant: in batch mode the sample is written whatever the status is
captureSample_buffer_any_status(l, b, actual) ==
    IF ~l.is_continuous_capture THEN RingBuffer_write(b, actual) ELSE b

\* captureSample(): what it does with the sample besides returning it
captureSample_buffer(l, b, actual) ==
    IF ~l.is_continuous_capture /\ l.status_value = "TRIGGERED"
    THEN RingBuffer_write(b, actual)
    ELSE b

captureSample_stream(l, out, actual) ==
    IF l.is_continuous_capture THEN out \o write_bits(actual) ELSE out

Capture_trigger ==
    /\ pc = "capture"
    /\ IF la.trigger_mask # 0
       THEN \E actual \in pins :
               /\ la.is_continuous_capture => Len(tx) < MaxStream
               /\ buffer' = captureSample_buffer(la, buffer, actual)
               /\ tx' = captureSample_stream(la, tx, actual)
               /\ cap' = [cap EXCEPT !.reads = Min(@ + 1, 2), !.last = actual]
               /\ IF trigger_miss(la, actual)
                  THEN UNCHANGED <<la, events, pc>>
                  ELSE /\ la' = setStatus(la, "TRIGGERED")
                       /\ events' = Append(events, "STATUS")
                       /\ pc' = "window"
       ELSE /\ la' = setStatus(la, "TRIGGERED")
            /\ events' = Append(events, "STATUS")
            /\ pc' = "window"
            /\ UNCHANGED <<buffer, tx, cap>>
    /\ UNCHANGED <<op, queue, scen, rx, done, now, host, pins, pico, sent>>

\* variant: a buffer that holds more than keep is left as it is
capture_buffer_keep_all(l, b) ==
    LET keep == l.read_count - l.delay_count
    IN  IF keep < 0
            THEN RingBuffer_clear_n(b, RingBuffer_available(b) + (0 - keep))
        ELSE IF keep = 0
            THEN RingBuffer_clear(b)
        ELSE b

\* variant: with keep < 0 the buffer is emptied but no later write is skipped
capture_buffer_no_skip(l, b) ==
    LET keep == l.read_count - l.delay_count
    IN  IF keep > 0 /\ RingBuffer_available(b) > keep
            THEN RingBuffer_clear_n(b, RingBuffer_available(b) - keep)
        ELSE IF keep < 0
            THEN RingBuffer_clear_n(b, RingBuffer_available(b))
        ELSE IF keep = 0
            THEN RingBuffer_clear(b)
        ELSE b

\* "remove unnecessary entries from buffer based on delayCount & readCount"
capture_buffer(l, b) ==
    LET keep == l.read_count - l.delay_count
    IN  IF keep > 0 /\ RingBuffer_available(b) > keep
            THEN RingBuffer_clear_n(b, RingBuffer_available(b) - keep)
        ELSE IF keep < 0
            THEN RingBuffer_clear_n(b, RingBuffer_available(b) + (0 - keep))
        ELSE IF keep = 0
            THEN RingBuffer_clear(b)
        ELSE b

Capture_window ==
    /\ pc = "window"
    /\ buffer' = capture_buffer(la, buffer)
    /\ pc' = "loop"
    /\ UNCHANGED <<op, queue, scen, la, cap, rx, tx, events, done, now, host, pins, pico,
                   sent>>

\* variant: the loop is left one sample short of read_count
captureAll_continues_one_short(l, b) ==
    l.status_value = "TRIGGERED" /\ RingBuffer_available(b) + 1 < l.read_count

\* the condition of captureAll() and captureAllMaxSpeed()
captureAll_continues(l, b) ==
    l.status_value = "TRIGGERED" /\ RingBuffer_available(b) < l.read_count

\* one iteration of captureAll() / captureAllMaxSpeed(): captureSampleFast()
Capture_sample ==
    /\ pc = "loop"
    /\ ~la.is_continuous_capture
    /\ captureAll_continues(la, buffer)
    /\ \E actual \in pins :
          /\ buffer' = RingBuffer_write(buffer, actual)
          /\ cap' = IF buffer.ignore_count > 0
                    THEN [cap EXCEPT !.dropped = @ + 1]
                    ELSE [cap EXCEPT !.stored = @ + 1,
                                     !.samples = Append(@, actual)]
    /\ UNCHANGED <<op, queue, scen, la, pc, rx, tx, events, done, now, host, pins, pico,
                   sent>>

\* the loop is left: setStatus(STOPPED); if (is_dump) dumpData();
Capture_stop ==
    /\ pc = "loop"
    /\ ~la.is_continuous_capture
    /\ ~captureAll_continues(la, buffer)
    /\ la' = setStatus(la, "STOPPED")
    /\ events' = Append(events, "STATUS")
    /\ pc' = IF cap.is_dump THEN "dump" ELSE "done"
    /\ UNCHANGED <<rbvars, cap, rx, tx, done, now, host, pins, pico, sent>>

\* variant: while (true) captureSampleFastContinuous();
Capture_stream_unconditional ==
    /\ pc = "loop"
    /\ la.is_continuous_capture
    /\ Len(tx) < MaxStream
    /\ \E actual \in pins : tx' = tx \o write_bits(actual)
    /\ UNCHANGED <<rbvars, la, pc, cap, rx, events, done, now, host, pins, pico, sent>>

\* captureAllContinous() / captureAllContinousMaxSpeed():
\* while (status_value == TRIGGERED) captureSampleFastContinuous();
Capture_stream ==
    /\ pc = "loop"
    /\ la.is_continuous_capture
    /\ IF la.status_value = "TRIGGERED"
       THEN /\ Len(tx) < MaxStream
            /\ \E actual \in pins : tx' = tx \o write_bits(actual)
            /\ pc' = pc
       ELSE /\ tx' = tx
            /\ pc' = "done"
    /\ UNCHANGED <<rbvars, la, cap, rx, events, done, now, host, pins, pico, sent>>

\* dumpData(): one iteration of while (available() > 0)
Dump_word ==
    /\ pc = "dump"
    /\ RingBuffer_available(buffer) > 0
    /\ \E value \in RingBuffer_read_result(buffer) : tx' = tx \o WordBytes(value)
    /\ buffer' = RingBuffer_read(buffer)
    /\ UNCHANGED <<op, queue, scen, la, pc, cap, rx, events, done, now, host, pins, pico,
                   sent>>

\* dumpData(): the loop is left, stream().flush()
Dump_flush ==
    /\ pc = "dump"
    /\ RingBuffer_available(buffer) = 0
    /\ pc' = "done"
    /\ UNCHANGED <<rbvars, la, cap, rx, tx, events, done, now, host, pins, pico, sent>>

Next ==
    \/ HostSend
    \/ Tick
    \/ ProcessCommand
    \/ Return
    \/ Capture_trigger
    \/ Capture_window
    \/ Capture_sample
    \/ Capture_stop
    \/ Capture_stream
    \/ Dump_word
    \/ Dump_flush

Spec == Init /\ [][Next]_vars

(***************************************************************************)
(* SpecApi: a sketch that also calls capture(is_max_speed, is_dump)        *)
(* itself, as the public method allows, so that a capture can leave its    *)
(* samples in the buffer (is_dump = false).  The host sets the counts and  *)
(* the trigger and arms.                                                   *)
(***************************************************************************)
ApiCommands ==
    { Short(SUMP_ARM), Long(SUMP_TRIGGER_MASK, 1, 0, 0, 0) }
    \cup { SetReadDelayCount(r, d) : r \in Counts, d \in Counts }

InitApi ==
    /\ \E t \in Thresholds : la = begin(t, MaxCapture)
    /\ buffer = RingBuffer(MaxCapture)
    /\ op = [name |-> "new", arg |-> 0, before |-> 0, result |-> 0, expect |-> 0]
    /\ queue = [items |-> <<>>, pending |-> 0]
    /\ scen = NoScen
    /\ pc = "idle"
    /\ cap = NoCapture
    /\ rx = <<>>
    /\ tx = <<>>
    /\ events = <<>>
    /\ done = NoCommand
    /\ now = 0
    /\ host = ApiCommands
    /\ pins = Sample
    /\ sent = 0
    /\ pico = NoPico

Api_capture ==
    /\ pc = "idle"
    /\ rx = <<>>
    /\ sent < MaxCommands
    /\ \E is_max_speed \in BOOLEAN, is_dump \in BOOLEAN :
          cap' = capture_call(is_max_speed, is_dump)
    /\ pc' = "capture"
    /\ sent' = sent + 1
    /\ UNCHANGED <<rbvars, la, rx, tx, events, done, now, host, pins, pico>>

NextApi ==
    \/ HostSend
    \/ ProcessCommand
    \/ Return
    \/ Api_capture
    \/ Capture_trigger
    \/ Capture_window
    \/ Capture_sample
    \/ Capture_stop
    \/ Dump_word
    \/ Dump_flush

SpecApi == InitApi /\ [][NextApi]_vars

(***************************************************************************)
(* C5: with trigger_mask = m # 0 and trigger_values = v, status becomes    *)
(* TRIGGERED only right after a pin sample s with ((v XOR s) AND m) = 0,   *)
(* and every earlier sample of that wait failed the test (the wait went on *)
(* only after samples that fail it); with m = 0 status becomes TRIGGERED   *)
(* without any pin being read.                                             *)
(***************************************************************************)
Matches(v, m, s) == BitAnd(BitXor(v, s), m) = 0

C5_TriggerOnlyOnMatch ==
    /\ (pc = "capture" /\ cap.reads >= 1)
           => ~Matches(la.trigger_values, la.trigger_mask, cap.last)
    /\ (la.status_value = "TRIGGERED" /\ la.trigger_mask # 0)
           => cap.reads >= 1 /\ Matches(la.trigger_values, la.trigger_mask, cap.last)
    /\ (la.status_value = "TRIGGERED" /\ la.trigger_mask = 0)
           => cap.reads = 0

\* a wait that took more than one sample has triggered
C5_Witness ==
    /\ la.status_value = "TRIGGERED"
    /\ la.trigger_mask # 0
    /\ cap.reads = 2

\* a capture without a trigger mask has triggered
C5_WitnessNoMask ==
    /\ la.status_value = "TRIGGERED"
    /\ la.trigger_mask = 0

(***************************************************************************)
(* The entries a buffer holds, oldest first: for each, the slot read()     *)
(* would load it from and what the slot holds (Unwritten for the slot      *)
(* outside the array).                                                     *)
(***************************************************************************)
RECURSIVE Entries(_)
Entries(b) ==
    IF b.available_count = 0 THEN <<>>
    ELSE LET i == RingBuffer_read_index(b)
         IN  <<(<<i, IF i < b.size_count THEN b.data[i] ELSE Unwritten>>)>>
                 \o Entries(RingBuffer_read(b))

Newest(entries, n) == SubSeq(entries, Len(entries) - n + 1, Len(entries))

(***************************************************************************)
(* C6: when delay_count >= read_count (keep <= 0) the buffer is empty when *)
(* the sampling loop starts, and exactly delay_count - read_count of the   *)
(* samples that follow are discarded before any sample is stored.          *)
(***************************************************************************)
C6_NoPreTriggerWindow ==
    LET keep == la.read_count - la.delay_count
    IN  (pc \in {"loop", "dump", "done"} /\ keep <= 0) =>
            /\ (pc = "loop" /\ cap.stored = 0 /\ cap.dropped = 0)
                   => /\ RingBuffer_available(buffer) = 0
                      /\ buffer.ignore_count = 0 - keep
            /\ cap.stored = 0 => cap.dropped <= 0 - keep
            /\ cap.stored >= 1 => cap.dropped = 0 - keep

\* a capture with delay_count > read_count has discarded its first samples
\* and then stored one
C6_Witness ==
    /\ pc = "loop"
    /\ la.delay_count > la.read_count
    /\ cap.dropped >= 1
    /\ cap.stored >= 1

Raised(event) == \E i \in 1..Len(events) : events[i] = event

C10_ResetClears ==
    (pc = "done" /\ done.cmd = SUMP_RESET /\ done.accepted) =>
        /\ la.status_value = "STOPPED"
        /\ RingBuffer_available(buffer) = 0
        /\ buffer.ignore_count = 0
        /\ Raised("RESET")

(***************************************************************************)
(* SpecE2E: after begin() with a capture size of 100 or more the host has  *)
(* sent RESET, ID, GET_METADATA, SET_DIVIDER(99),                          *)
(* SET_READ_DELAY_COUNT(100, 50) and ARM; no trigger mask is set.  The     *)
(* pins hold one level for the run.                                        *)
(***************************************************************************)
Script ==
    Short(SUMP_RESET) \o Short(SUMP_ID) \o Short(SUMP_GET_METADATA)
        \o SetDivider(99) \o SetReadDelayCount(100, 50) \o Short(SUMP_ARM)

InitE2E ==
    /\ \E t \in Thresholds, size \in {100, 101} :
          /\ la = begin(t, size)
          /\ buffer = RingBuffer(size)
    /\ op = [name |-> "new", arg |-> 0, before |-> 0, result |-> 0, expect |-> 0]
    /\ queue = [items |-> <<>>, pending |-> 0]
    /\ scen = NoScen
    /\ pc = "idle"
    /\ cap = NoCapture
    /\ rx = Script
    /\ tx = <<>>
    /\ events = <<>>
    /\ done = NoCommand
    /\ now = 0
    /\ host = {}
    /\ \E level \in Sample : pins = {level}
    /\ sent = MaxCommands
    /\ pico = NoPico

NextE2E ==
    \/ Tick
    \/ ProcessCommand
    \/ Return
    \/ Capture_trigger
    \/ Capture_window
    \/ Capture_sample
    \/ Capture_stop
    \/ Dump_word
    \/ Dump_flush

SpecE2E == InitE2E /\ [][NextE2E]_vars

\* the bytes of tx are n words, each one the pin level of the run
DumpOf(n) ==
    /\ Len(tx) = 4 * n
    /\ \A level \in pins : \A i \in 1..Len(tx) :
          tx[i] = IF i % 4 = 1 THEN level ELSE 0

\* what the script results in, but for the loop that takes the samples
EndToEnd(max_speed_loop) ==
    /\ la.status_value = "TRIGGERED" => cap.reads = 0
    /\ (pc = "done" /\ done.cmd = SUMP_ARM) =>
          /\ cap.reads = 0
          /\ cap.stored = 100
          /\ cap.dropped = 0
          /\ cap.is_max_speed = max_speed_loop
          /\ DumpOf(100)
          /\ la.status_value = "STOPPED"

MaxRuns == 2

\* the response units of AbstractCapture::write: write(0), and write(data, n)
Sentinel == <<"sentinel", 0>>

write_sentinel(out) == Append(out, Sentinel)

write_data(out, value) == Append(out, <<"sample", value>>)

PicoCapturePIO ==
    [ pc |-> "idle", abort |-> FALSE, n_samples |-> 0, transferred |-> 0,
      busy |-> FALSE, enabled |-> FALSE, written |-> 0, canceled |-> FALSE,
      out |-> <<>>, runs |-> 0 ]

InitPico ==
    /\ \E t \in Thresholds, count \in 0..MaxCapture :
          la = [begin(t, MaxCapture) EXCEPT !.read_count = count]
    /\ buffer = RingBuffer(MaxCapture)
    /\ op = [name |-> "new", arg |-> 0, before |-> 0, result |-> 0, expect |-> 0]
    /\ queue = [items |-> <<>>, pending |-> 0]
    /\ scen = NoScen
    /\ pc = "idle"
    /\ cap = NoCapture
    /\ rx = <<>>
    /\ tx = <<>>
    /\ events = <<>>
    /\ done = NoCommand
    /\ now = 0
    /\ host = {}
    /\ pins = Sample
    /\ sent = 0
    /\ pico = PicoCapturePIO

\* capture() is entered: start() up to its call of arm()
Pico_start ==
    /\ pico.pc = "idle"
    /\ pico.runs < MaxRuns
    /\ pico' = [pico EXCEPT !.pc = "arm", !.abort = FALSE,
                            !.n_samples = la.read_count,
                            !.canceled = FALSE, !.out = <<>>,
                            !.runs = @ + 1]
    /\ UNCHANGED <<rbvars, la, pc, cap, rx, tx, events, done, now, host, pins, sent>>

\* arm(): the DMA channel is configured for n_samples transfers and started,
\* the state machine enabled; capture() goes on into dump()
Pico_arm ==
    /\ pico.pc = "arm"
    /\ pico' = [pico EXCEPT !.pc = "wait", !.transferred = 0,
                            !.busy = (pico.n_samples > 0), !.enabled = TRUE]
    /\ UNCHANGED <<rbvars, la, pc, cap, rx, tx, events, done, now, host, pins, sent>>

\* the hardware moves one sample from the state machine into data_ptr()
Pico_transfer ==
    /\ pico.busy /\ pico.enabled
    /\ \E actual \in pins :
          buffer' = [buffer EXCEPT !.data[pico.transferred] = actual]
    /\ pico' = [pico EXCEPT !.transferred = @ + 1,
                            !.busy = (pico.transferred + 1 < pico.n_samples)]
    /\ UNCHANGED <<op, queue, scen, la, pc, cap, rx, tx, events, done, now, host, pins,
                   sent>>

\* variant: cancel() stops the hardware but does not set the flag
cancel_hardware_only(p) ==
    IF ~p.abort THEN [p EXCEPT !.enabled = FALSE, !.busy = FALSE] ELSE p

\* cancel()
cancel(p) ==
    IF ~p.abort
    THEN [p EXCEPT !.abort = TRUE, !.enabled = FALSE, !.busy = FALSE]
    ELSE p

\* a capture is in progress: capture() has been entered and dump() has not
\* yet chosen its response
InProgress(p) == p.pc \in {"arm", "wait"}

Pico_cancel ==
    /\ pico' = [cancel(pico) EXCEPT
                   !.canceled = @ \/ (~pico.abort /\ InProgress(pico))]
    /\ UNCHANGED <<rbvars, la, pc, cap, rx, tx, events, done, now, host, pins, sent>>

\* dump(): the wait is over; if (!abort) write(data_ptr(), n_samples);
\* else write(0);
Pico_dump ==
    /\ pico.pc = "wait"
    /\ ~pico.busy
    /\ pico' = IF ~pico.abort
               THEN [pico EXCEPT !.pc = "write", !.written = 0]
               ELSE [pico EXCEPT !.pc = "done", !.out = write_sentinel(@)]
    /\ UNCHANGED <<rbvars, la, pc, cap, rx, tx, events, done, now, host, pins, sent>>

\* write(data_ptr(), n_samples), one sample per step
Pico_write ==
    /\ pico.pc = "write"
    /\ IF pico.written < pico.n_samples
       THEN pico' = [pico EXCEPT !.written = @ + 1,
                                 !.out = write_data(@, buffer.data[pico.written])]
       ELSE pico' = [pico EXCEPT !.pc = "done"]
    /\ UNCHANGED <<rbvars, la, pc, cap, rx, tx, events, done, now, host, pins, sent>>

\* capture() returns
Pico_return ==
    /\ pico.pc = "done"
    /\ pico' = [pico EXCEPT !.pc = "idle"]
    /\ UNCHANGED <<rbvars, la, pc, cap, rx, tx, events, done, now, host, pins, sent>>

NextPico ==
    \/ Pico_start
    \/ Pico_arm
    \/ Pico_transfer
    \/ Pico_cancel
    \/ Pico_dump
    \/ Pico_write
    \/ Pico_return

SpecPico == InitPico /\ [][NextPico]_vars

C11_StatusEdges ==
    [][ la'.status_value # la.status_value =>
          \/ /\ la.status_value = "STOPPED" /\ la'.status_value = "ARMED"
             /\ pc = "idle" /\ done'.cmd = SUMP_ARM
          \/ /\ la.status_value = "ARMED" /\ la'.status_value = "TRIGGERED"
             /\ pc = "capture"
             /\ \/ la.trigger_mask = 0
                \/ Matches(la.trigger_values, la.trigger_mask, cap'.last)
          \/ /\ la.status_value = "TRIGGERED" /\ la'.status_value = "STOPPED"
             /\ pc = "loop" /\ pc' \in {"dump", "done"} ]_vars

\* a second ARM has gone round the three edges
C11_Witness ==
    /\ sent >= 2
    /\ pc = "done"
    /\ done.cmd = SUMP_ARM
    /\ la.status_value = "STOPPED"
    /\ events = <<"STATUS", "STATUS", "STATUS">>

(***************************************************************************)
(* SpecDiv: the host sends SET_DIVIDER commands only, with dividers from   *)
(* each range of the 32 bits.                                              *)
(***************************************************************************)
Dividers == {0, 1, 49, 98, 99, 100, 149, 199, 99999999, 100000000, 2147483647}

DividerCommands ==
    { SetDivider(d) : d \in Dividers }
    \cup { Long(SUMP_SET_DIVIDER, 128, 0, 0, 0),
           Long(SUMP_SET_DIVIDER, 255, 255, 255, 255) }

InitDiv ==
    /\ \E t \in Thresholds : la = begin(t, MaxCapture)
    /\ buffer = RingBuffer(MaxCapture)
    /\ op = [name |-> "new", arg |-> 0, before |-> 0, result |-> 0, expect |-> 0]
    /\ queue = [items |-> <<>>, pending |-> 0]
    /\ scen = NoScen
    /\ pc = "idle"
    /\ cap = NoCapture
    /\ rx = <<>>
    /\ tx = <<>>
    /\ events = <<>>
    /\ done = NoCommand
    /\ now = 0
    /\ host = DividerCommands
    /\ pins = Sample
    /\ sent = 0
    /\ pico = NoPico

NextDiv ==
    \/ HostSend
    \/ ProcessCommand
    \/ Return

SpecDiv == InitDiv /\ [][NextDiv]_vars

\* f = floor(100 000 000 / (d + 1)) for the divider d sent as the bytes arg,
\* most significant first
IsFrequencyOf(f, arg) ==
    IF arg[1] >= 6 THEN f = 0
    ELSE LET d == ((arg[1] * 256 + arg[2]) * 256 + arg[3]) * 256 + arg[4]
         IN  f * (d + 1) <= 100000000 /\ 100000000 - f * (d + 1) <= d

(***************************************************************************)
(* C12: for every 32-bit divider d received with SET_DIVIDER the capture   *)
(* frequency becomes floor(100 000 000 / (d + 1)) and the inter-sample     *)
(* delay floor(1 000 000 / frequency) - 1 microseconds; d = 99 gives       *)
(* 1 000 000 Hz and delay 0, d = 199 gives 500 000 Hz and delay 1.         *)
(***************************************************************************)
C12_DividerArithmetic ==
    (pc = "done" /\ done.cmd = SUMP_SET_DIVIDER) =>
        /\ la.frequecy_value >= 0
        /\ IsFrequencyOf(la.frequecy_value, done.arg)
        /\ la.frequecy_value > 0
        /\ la.delay_time_us = (1000000 \div la.frequecy_value) - 1
        /\ done.arg = <<0, 0, 0, 99>>
               => la.frequecy_value = 1000000 /\ la.delay_time_us = 0
        /\ done.arg = <<0, 0, 0, 199>>
               => la.frequecy_value = 500000 /\ la.delay_time_us = 1

(***************************************************************************)
(* C13: after any sequence of protocol commands following begin() with max *)
(* capture size M, read_count <= M and delay_count <= M;                   *)
(* SET_READ_DELAY_COUNT with the 16-bit halves (r, d) sets read_count to   *)
(* min(r, M) and delay_count to min(d, M), also when r or d exceeds M.     *)
(***************************************************************************)
Half(arg, idx) == arg[2 * idx + 1] * 256 + arg[2 * idx + 2]

C13_CountsClamped ==
    /\ la.read_count <= la.max_capture_size
    /\ la.delay_count <= la.max_capture_size
    /\ (pc = "done" /\ done.cmd = SUMP_SET_READ_DELAY_COUNT) =>
          LET r == Half(done.arg, 0)
              d == Half(done.arg, 1)
              M == la.max_capture_size
          IN  /\ la.read_count = IF r < M THEN r ELSE M
              /\ la.delay_count = IF d < M THEN d ELSE M

\* a read count above the capture size has been received and clamped
C13_Witness ==
    /\ pc = "done"
    /\ done.cmd = SUMP_SET_READ_DELAY_COUNT
    /\ Half(done.arg, 0) > la.max_capture_size
    /\ Half(done.arg, 1) < la.max_capture_size
    /\ la.read_count = la.max_capture_size

(***************************************************************************)
(* C14: after a batch capture completes without cancellation the dump      *)
(* writes exactly one 32-bit word per buffered sample, oldest sample       *)
(* first, each word in big-endian byte order, and leaves the ring buffer   *)
(* empty (available() = 0).                                                *)
(***************************************************************************)
BigEndian(value) ==
    <<ByteOf(value, 3), ByteOf(value, 2), ByteOf(value, 1), ByteOf(value, 0)>>

RECURSIVE BigEndianWords(_)
BigEndianWords(values) ==
    IF values = <<>> THEN <<>>
    ELSE BigEndian(Head(values)) \o BigEndianWords(Tail(values))

C14_DumpBigEndian ==
    (pc = "done" /\ done.cmd = SUMP_ARM /\ ~la.is_continuous_capture) =>
        /\ tx = BigEndianWords(cap.samples)
        /\ RingBuffer_available(buffer) = 0

(***************************************************************************)
(* C15: a RingBuffer constructed with capacity 0 treats every write as a   *)
(* no-op: after any sequence of writes, reads and clears available() = 0,  *)
(* read() returns 0, and no storage slot has been written.                 *)
(***************************************************************************)
C15_ZeroCapacityNoOp ==
    [][ buffer.size_count = 0 =>
          /\ RingBuffer_available(buffer') = 0
          /\ op'.name = "read" => op'.result = 0
          /\ op'.name = "write" => RingBuffer_write_access(buffer) = {} ]_vars

(***************************************************************************)
(* C20: in every reachable state of a RingBuffer with capacity C >= 1      *)
(* each slot access of write() and read() uses an index in 0..C-1:         *)
(* write_pos and read_pos never address a slot at or beyond the capacity.  *)
(***************************************************************************)
C20_AccessWithinCapacity ==
    [][ buffer.size_count >= 1 =>
          /\ op'.name = "write" =>
                \A i \in RingBuffer_write_access(buffer) : i < buffer.size_count
          /\ op'.name = "read" =>
                \A i \in RingBuffer_read_access(buffer) : i < buffer.size_count
      ]_vars

(***************************************************************************)
(* C16: read() on an empty RingBuffer returns 0 and leaves available(),    *)
(* both cursors and the pending-ignore count unchanged; read() on a        *)
(* non-empty buffer returns the oldest stored value and decrements         *)
(* available() by exactly 1.                                               *)
(***************************************************************************)
C16_ReadOldestOrZero ==
    [][ op'.name = "read" =>
          IF RingBuffer_available(buffer) = 0
          THEN /\ op'.result = 0
               /\ RingBuffer_available(buffer') = 0
               /\ buffer'.write_pos = buffer.write_pos
               /\ buffer'.read_pos = buffer.read_pos
               /\ buffer'.ignore_count = buffer.ignore_count
          ELSE /\ op'.result = Fifo_front(queue)
               /\ RingBuffer_available(buffer')
                      = RingBuffer_available(buffer) - 1 ]_vars

(***************************************************************************)
(* SpecOpcodes: the host sends every byte that is not an opcode of the     *)
(* dispatch table; XON and XOFF also with a command of the table behind    *)
(* them on the wire; and two commands of the table on their own.           *)
(***************************************************************************)
DispatchTable ==
    { SUMP_RESET, SUMP_ARM, SUMP_ID, SUMP_GET_METADATA, SUMP_SET_DIVIDER,
      SUMP_SET_READ_DELAY_COUNT, SUMP_SET_FLAGS, SUMP_TRIGGER_MASK,
      SUMP_TRIGGER_VALUES, SUMP_TRIGGER_CONFIG }

Followers ==
    { Short(SUMP_ID), SetReadDelayCount(1, 0),
      Long(SUMP_TRIGGER_MASK, 1, 0, 0, 0) }

OpcodeCommands ==
    { Short(b) : b \in (0..255) \ DispatchTable }
    \cup { Short(b) \o c : b \in {SUMP_XON, SUMP_XOFF}, c \in Followers }
    \cup { SetReadDelayCount(1, 0), Long(SUMP_TRIGGER_MASK, 1, 0, 0, 0) }

InitOpcodes ==
    /\ \E t \in Thresholds : la = begin(t, MaxCapture)
    /\ buffer = RingBuffer(MaxCapture)
    /\ op = [name |-> "new", arg |-> 0, before |-> 0, result |-> 0, expect |-> 0]
    /\ queue = [items |-> <<>>, pending |-> 0]
    /\ scen = NoScen
    /\ pc = "idle"
    /\ cap = NoCapture
    /\ rx = <<>>
    /\ tx = <<>>
    /\ events = <<>>
    /\ done = NoCommand
    /\ now = 0
    /\ host = OpcodeCommands
    /\ pins = Sample
    /\ sent = 0
    /\ pico = NoPico

NextOpcodes ==
    \/ HostSend
    \/ ProcessCommand
    \/ Return

SpecOpcodes == InitOpcodes /\ [][NextOpcodes]_vars

(***************************************************************************)
(* C17: an opcode outside the dispatch table (any byte other than 0x00,    *)
(* 0x01, 0x02, 0x04, 0x80, 0x81, 0x82, 0xC0, 0xC1, 0xC2) leaves status,    *)
(* ring buffer, trigger and timing configuration unchanged, writes nothing *)
(* to the transport, raises no event, and consumes no byte beyond the      *)
(* opcode itself.                                                          *)
(***************************************************************************)
C17_UnknownOpcodeIgnored ==
    [][ ( /\ pc = "idle" /\ pc' # "idle"
          /\ rx # <<>>
          /\ Head(rx) \notin {0, 1, 2, 4, 128, 129, 130, 192, 193, 194} )
        => /\ la' = la
           /\ buffer' = buffer
           /\ tx' = tx /\ tx' = <<>>
           /\ events' = events /\ events' = <<>>
           /\ rx' = Tail(rx) ]_vars

\* the byte 0x13 was dispatched with a command behind it on the wire, after
\* an earlier command had set the trigger mask
C17_Witness ==
    /\ pc = "done"
    /\ done.cmd = 19
    /\ rx = SetReadDelayCount(1, 0)
    /\ la.trigger_mask = 1

(***************************************************************************)
(* C18: from the moment ARM starts a capture until the capture loop exits  *)
(* no byte is read from the transport's input: a command byte that        *)
(* arrives during a capture is neither consumed nor dispatched until the   *)
(* capture has ended, so command dispatch modifies neither the ring buffer *)
(* nor the session state while a sampling loop is running.                 *)
(***************************************************************************)
C18_NoDispatchWhileCapturing ==
    [][ (pc \in {"capture", "window", "loop"}) =>
          ( /\ Len(rx') >= Len(rx)
            /\ SubSeq(rx', 1, Len(rx)) = rx
            /\ done' = done
            /\ [la' EXCEPT !.status_value = la.status_value] = la ) ]_vars

\* a command has arrived while the sampling loop runs and waits unread
C18_Witness ==
    /\ pc = "loop"
    /\ cap.stored >= 1
    /\ la.status_value = "TRIGGERED"
    /\ rx # <<>>

(***************************************************************************)
(* Stopping a capture from outside the protocol.  status_value is the flag *)
(* every sampling loop tests; the code that runs inside a loop iteration   *)
(* (the pin reader's readAll(), the Stream's write()) or another context   *)
(* of the sketch may call the public setStatus(STOPPED) or reset().  The   *)
(* loops call virtual functions in every iteration, so the field is read   *)
(* again for every test.                                                   *)
(***************************************************************************)
\* reset(): memset(data_ptr(), 0, max_capture_size * sizeof(T)); clear();
reset(b) == RingBuffer_clear([b EXCEPT !.data = [i \in DOMAIN b.data |-> 0]])

InCapture == pc \in {"capture", "window", "loop"}

\* setStatus(STOPPED) called from outside while a capture is in progress
External_setStatus ==
    /\ InCapture
    /\ la.status_value # "STOPPED"
    /\ la' = setStatus(la, "STOPPED")
    /\ events' = Append(events, "STATUS")
    /\ UNCHANGED <<rbvars, pc, cap, rx, tx, done, now, host, pins, pico, sent>>

\* reset() called from outside while a capture is in progress
External_reset ==
    /\ InCapture
    /\ la.status_value # "STOPPED"
    /\ la' = setStatus(la, "STOPPED")
    /\ buffer' = reset(buffer)
    /\ events' = events \o <<"STATUS", "RESET">>
    /\ UNCHANGED <<op, queue, scen, pc, cap, rx, tx, done, now, host, pins, pico,
                   sent>>

\* the host sets or clears the continuous flag, sets a trigger mask and arms
StopCommands ==
    { Short(SUMP_ARM),
      Long(SUMP_SET_FLAGS, 0, 64, 0, 0), Long(SUMP_SET_FLAGS, 0, 0, 0, 0),
      Long(SUMP_TRIGGER_MASK, 1, 0, 0, 0) }

\* one pin, low or high
StopPins == {0, 1}

InitStop ==
    /\ \E t \in Thresholds : la = begin(t, MaxCapture)
    /\ buffer = RingBuffer(MaxCapture)
    /\ op = [name |-> "new", arg |-> 0, before |-> 0, result |-> 0, expect |-> 0]
    /\ queue = [items |-> <<>>, pending |-> 0]
    /\ scen = NoScen
    /\ pc = "idle"
    /\ cap = NoCapture
    /\ rx = <<>>
    /\ tx = <<>>
    /\ events = <<>>
    /\ done = NoCommand
    /\ now = 0
    /\ host = StopCommands
    /\ pins = StopPins
    /\ sent = 0
    /\ pico = NoPico

NextStop ==
    \/ HostSend
    \/ ProcessCommand
    \/ Return
    \/ Capture_trigger
    \/ Capture_window
    \/ Capture_sample
    \/ Capture_stop
    \/ Capture_stream
    \/ Dump_word
    \/ Dump_flush
    \/ External_setStatus
    \/ External_reset

\* the processor keeps executing the thread that runs loop(): a step of the
\* capture or the return of processCommand() that can be taken is taken
SpecStop ==
    /\ InitStop
    /\ [][NextStop]_vars
    /\ WF_vars(Capture_trigger)
    /\ WF_vars(Capture_window)
    /\ WF_vars(Capture_sample)
    /\ WF_vars(Capture_stop)
    /\ WF_vars(Capture_stream)
    /\ WF_vars(Dump_word)
    /\ WF_vars(Dump_flush)
    /\ WF_vars(Return)

\* a continuous capture is in its sampling loop and has been stopped
StoppedFromOutside ==
    /\ pc = "loop"
    /\ la.is_continuous_capture
    /\ la.status_value # "TRIGGERED"

BatchCommands ==
    { Short(SUMP_ARM) }
    \cup { SetReadDelayCount(r, d) : r \in 0..MaxCapture, d \in 0..MaxCapture }

InitBatch ==
    /\ \E t \in SketchThresholds : la = begin(t, MaxCapture)
    /\ buffer = RingBuffer(MaxCapture)
    /\ op = [name |-> "new", arg |-> 0, before |-> 0, result |-> 0, expect |-> 0]
    /\ queue = [items |-> <<>>, pending |-> 0]
    /\ scen = NoScen
    /\ pc = "idle"
    /\ cap = NoCapture
    /\ rx = <<>>
    /\ tx = <<>>
    /\ events = <<>>
    /\ done = NoCommand
    /\ now = 0
    /\ host = BatchCommands
    /\ pins = Sample
    /\ sent = 0
    /\ pico = NoPico

NextBatch ==
    \/ HostSend
    \/ ProcessCommand
    \/ Return
    \/ Capture_trigger
    \/ Capture_window
    \/ Capture_sample
    \/ Capture_stop
    \/ Dump_word
    \/ Dump_flush

SpecBatch ==
    /\ InitBatch
    /\ [][NextBatch]_vars
    /\ WF_vars(Capture_trigger)
    /\ WF_vars(Capture_window)
    /\ WF_vars(Capture_sample)
    /\ WF_vars(Capture_stop)

\* ARM has been dispatched in batch mode with no trigger mask
BatchArmed ==
    /\ pc = "capture"
    /\ done.cmd = SUMP_ARM
    /\ la.trigger_mask = 0
    /\ ~la.is_continuous_capture

\* the sampling loop has just been left and nothing is dumped yet
LoopLeft ==
    /\ pc = "dump"
    /\ tx = <<>>
    /\ la.status_value = "STOPPED"
    /\ RingBuffer_available(buffer) = la.read_count

(***************************************************************************)
(* C21: in batch mode with a pin reader that always returns, every ARM     *)
(* with trigger_mask = 0, in a configuration reachable through protocol    *)
(* commands (read_count and delay_count anywhere in 0..max capture size),  *)
(* terminates: the sampling loop exits with available() = read_count and   *)
(* the status becomes STOPPED.                                             *)
(***************************************************************************)
C21_BatchArmTerminates == BatchArmed ~> LoopLeft

\* a capture that first discarded samples and then stored some has left its
\* loop
C21_Witness ==
    /\ LoopLeft
    /\ done.cmd = SUMP_ARM
    /\ cap.dropped >= 1
    /\ cap.stored >= 1

(***************************************************************************)
(* C22: whenever a batch capture has completed and the status is STOPPED,  *)
(* the ring buffer has no pending ignored writes (ignore_count = 0), so    *)
(* the number of samples a capture discards after the trigger depends on   *)
(* that capture's read_count and delay_count only, never on an earlier     *)
(* capture (one with read_count = 0 included).                             *)
(***************************************************************************)
C22_NoPendingIgnores ==
    /\ ( /\ pc \in {"dump", "done"}
         /\ done.cmd = SUMP_ARM
         /\ ~la.is_continuous_capture
         /\ la.status_value = "STOPPED" ) => buffer.ignore_count = 0
    /\ ( /\ pc = "loop"
         /\ done.cmd = SUMP_ARM
         /\ ~la.is_continuous_capture ) =>
            LET keep == la.read_count - la.delay_count
            IN  cap.dropped + buffer.ignore_count = IF keep < 0 THEN 0 - keep ELSE 0

(***************************************************************************)
(* C23: in batch mode the samples read while waiting for the trigger       *)
(* (status ARMED) are not written to the ring buffer: available() and the  *)
(* buffer contents at the TRIGGERED transition equal those at the moment   *)
(* ARM was processed.  Stated per step: no step taken at the trigger wait  *)
(* of a batch capture, the one that sets TRIGGERED included, changes the   *)
(* buffer.                                                                 *)
(***************************************************************************)
C23_TriggerWaitKeepsBuffer ==
    [][ (pc = "capture" /\ ~la.is_continuous_capture) => buffer' = buffer ]_vars

\* ARM found samples in the buffer, waited through a sample that missed the
\* trigger, and has triggered
C23_Witness ==
    /\ pc = "window"
    /\ done.cmd = SUMP_ARM
    /\ ~la.is_continuous_capture
    /\ la.trigger_mask # 0
    /\ cap.reads = 2
    /\ RingBuffer_available(buffer) >= 1

(***************************************************************************)
(* C24: under any interleaving of write, read, clear() and clear(n) calls  *)
(* a RingBuffer of capacity C >= 1 behaves as an abstract bounded FIFO     *)
(* queue with drop-oldest-on-full and a pending-discard counter:           *)
(* available() equals the abstract queue's length and every read()         *)
(* returns the abstract queue's front element (or 0 when it is empty).     *)
(***************************************************************************)
C24_RefinesFifo ==
    buffer.size_count >= 1 =>
        /\ RingBuffer_available(buffer) = Len(queue.items)
        /\ buffer.ignore_count = queue.pending
        /\ op.name = "read" => op.result = op.expect

(***************************************************************************)
(* Command streams: the host writes two commands back to back.  Every      *)
(* argument byte of the first is itself an opcode of the dispatch table    *)
(* (ARM, RESET, ID, GET_METADATA); the continuous flag is never set.       *)
(***************************************************************************)
Plain == {SUMP_RESET, SUMP_ARM, SUMP_ID, SUMP_GET_METADATA}

Extended ==
    { SUMP_TRIGGER_MASK, SUMP_TRIGGER_VALUES, SUMP_TRIGGER_CONFIG,
      SUMP_SET_DIVIDER, SUMP_SET_READ_DELAY_COUNT, SUMP_SET_FLAGS }

WireFirst ==
    { Short(b) : b \in Plain }
    \cup { Long(b, SUMP_ARM, SUMP_RESET, SUMP_ID, SUMP_GET_METADATA) : b \in Extended }

WireSecond ==
    { Short(SUMP_ID),
      Long(SUMP_TRIGGER_CONFIG, SUMP_GET_METADATA, SUMP_ID, SUMP_ARM, SUMP_RESET) }

WireStreams == { c1 \o c2 : c1 \in WireFirst, c2 \in WireSecond }

InitWire ==
    /\ \E t \in SketchThresholds : la = begin(t, MaxCapture)
    /\ buffer = RingBuffer(MaxCapture)
    /\ op = [name |-> "new", arg |-> 0, before |-> 0, result |-> 0, expect |-> 0]
    /\ queue = [items |-> <<>>, pending |-> 0]
    /\ scen = NoScen
    /\ pc = "idle"
    /\ cap = NoCapture
    /\ rx = <<>>
    /\ tx = <<>>
    /\ events = <<>>
    /\ done = NoCommand
    /\ now = 0
    /\ host = WireStreams
    /\ pins = Sample
    /\ sent = 0
    /\ pico = NoPico

NextWire ==
    \/ HostSend
    \/ Tick
    \/ ProcessCommand
    \/ Return
    \/ Capture_trigger
    \/ Capture_window
    \/ Capture_sample
    \/ Capture_stop
    \/ Dump_word
    \/ Dump_flush

SpecWire == InitWire /\ [][NextWire]_vars

\* what is left of a stream at a command boundary
WireBoundaries == {<<>>} \cup WireSecond \cup WireStreams

(***************************************************************************)
(* C25: the opcodes 0x80, 0x81, 0x82, 0xC0, 0xC1 and 0xC2 each consume     *)
(* exactly the 4 argument bytes that follow the opcode, and 0x00, 0x01,    *)
(* 0x02 and 0x04 consume none, so in a well-formed command stream no       *)
(* argument byte is ever dispatched as an opcode; SET_TRIGGER_CONFIG       *)
(* (0xC2) consumes its 4 bytes and changes no session or buffer state.     *)
(***************************************************************************)
C25_ArgumentsConsumed ==
    [][ /\ (pc = "idle" /\ pc' # "idle") =>
              LET n == IF Head(rx) \in Extended THEN 4 ELSE 0
              IN  /\ Head(rx) \in Plain \cup Extended
                  /\ done'.cmd = Head(rx)
                  /\ done'.arg = SubSeq(rx, 2, n + 1)
                  /\ rx' = SubSeq(rx, n + 2, Len(rx))
                  /\ Head(rx) = SUMP_TRIGGER_CONFIG =>
                        /\ la' = la
                        /\ buffer' = buffer
                        /\ tx' = <<>>
                        /\ events' = <<>>
        /\ (pc' = "idle") => (rx' \in WireBoundaries) ]_vars

\* TRIGGER_CONFIG has been dispatched after a command with an argument, and
\* its own argument is read
C25_Witness ==
    /\ pc = "done"
    /\ done.cmd = SUMP_TRIGGER_CONFIG
    /\ done.arg = <<SUMP_GET_METADATA, SUMP_ID, SUMP_ARM, SUMP_RESET>>
    /\ rx = <<>>
    /\ la.trigger_mask = SUMP_ARM

(***************************************************************************)
(* RESET at any uptime.  millis() is a 32-bit unsigned count that wraps to *)
(* 0 after 2^32 ms; now holds it as value - 2^32 before the wrap.  A run   *)
(* starts at power-up or MaxNow ms before the wrap and lasts at most       *)
(* 2 * MaxNow ms, so the order of the held values is the order of the      *)
(* instants.                                                               *)
(***************************************************************************)
StartTimes == {0, 0 - MaxNow}

InitReset ==
    /\ \E t \in SketchThresholds : la = begin(t, MaxCapture)
    /\ buffer = RingBuffer(MaxCapture)
    /\ op = [name |-> "new", arg |-> 0, before |-> 0, result |-> 0, expect |-> 0]
    /\ queue = [items |-> <<>>, pending |-> 0]
    /\ scen = NoScen
    /\ pc = "idle"
    /\ cap = NoCapture
    /\ rx = <<>>
    /\ tx = <<>>
    /\ events = <<>>
    /\ done = NoCommand
    /\ now \in StartTimes
    /\ host = {Short(SUMP_RESET)}
    /\ pins = Sample
    /\ sent = 0
    /\ pico = NoPico

NextReset ==
    \/ HostSend
    \/ Tick
    \/ ProcessCommand
    \/ Return

SpecReset == InitReset /\ [][NextReset]_vars

(***************************************************************************)
(* C26: a RESET received within the cool-down window (500 ms) after an     *)
(* accepted RESET is absorbed: it changes no state, raises no event and    *)
(* does not extend the window; the first RESET received after the window   *)
(* has elapsed is accepted again.  The window of the last accepted RESET   *)
(* ends at sump_reset_igorne_timeout, which is not 0 once a RESET was      *)
(* accepted at any instant but 500 ms before the wrap.                     *)
(***************************************************************************)
C26_ResetDebounced ==
    [][ ( /\ pc = "idle" /\ pc' = "done"
          /\ Head(rx) = SUMP_RESET
          /\ la.sump_reset_igorne_timeout # 0 ) =>
            IF now <= la.sump_reset_igorne_timeout
            THEN /\ ~done'.accepted
                 /\ la' = la
                 /\ buffer' = buffer
                 /\ events' = <<>>
                 /\ tx' = <<>>
            ELSE /\ done'.accepted
                 /\ la'.sump_reset_igorne_timeout = now + ResetIgnoreMs ]_vars

(***************************************************************************)
(* C27: on every ARM, one issued before any SET_DIVIDER included, the      *)
(* status is set to ARMED before the capture starts, and the capture uses  *)
(* the unpaced (maximum-speed) loop exactly when capture_frequency >= the  *)
(* configured threshold, otherwise the paced loop with the inter-sample    *)
(* delay derived from capture_frequency.  A frequency that was never       *)
(* assigned is taken as any value it may hold.                             *)
(***************************************************************************)
C27_ArmSpeedMode ==
    (pc \in {"capture", "window", "loop"} /\ done.cmd = SUMP_ARM) =>
        /\ pc = "capture" => la.status_value = "ARMED"
        /\ \E f \in Resolve(la.frequecy_value) :
              /\ cap.is_max_speed <=> f >= la.max_frequecy_threshold
              /\ ~cap.is_max_speed =>
                    /\ la.delay_time_us # Indeterminate
                    /\ la.delay_time_us = delay_time_us_of(f)

=============================================================================
